---------------------------- MODULE Spec2Model ----------------------------
(***************************************************************************)
(* State-machine model of the finance-tracker REST server with JWT auth    *)
(* and automatic wallet assignment (src/unnamed/part_002).                 *)
(*                                                                         *)
(* Node runs one handler continuation at a time; handlers interleave only  *)
(* at their `await` points.  Every action below is one such continuation:  *)
(* the database operation being awaited together with the synchronous code *)
(* that runs when it resolves.  (A read and the continuation that consumes *)
(* it are one step: the continuation touches only process memory and the   *)
(* read touches only the store, so moving the read next to its             *)
(* continuation reorders no conflicting accesses.)                         *)
(*                                                                         *)
(* Spec is the whole server.  Registration writes only the User collection *)
(* and assignedWallets and never reads the Transaction collection;         *)
(* submission writes only the Transaction collection and reads of the      *)
(* principals nothing but a stored walletAddress, which no handler ever    *)
(* rewrites.  The two halves are therefore explored separately:            *)
(*   SpecRegister  concurrent registrations from a fresh process;          *)
(*   SpecSubmit    concurrent submissions, by principals that sequential   *)
(*                 registrations (a run of SpecRegister) have stored.      *)
(* The handlers that only read the ledger have their own specifications:   *)
(*   SpecSummary   the dashboard summary over every ledger of a bounded    *)
(*                 set (the summary is a function of the stored ledger);   *)
(*   SpecLedger    submissions together with listings and summaries.       *)
(* SpecServer is the server of src/server.js, a separate program with its  *)
(* own state (serverVars), which shares with the auth server only the      *)
(* connection state and the clock.                                         *)
(* Further specifications narrow the inputs to one concern each:           *)
(*   SpecRestart   registrations with process restarts, which reset the    *)
(*                 module state and keep the database;                     *)
(*   SpecLogin     logins against the stored principals;                   *)
(*   SpecOutage    every guarded handler while the connection comes and    *)
(*                 goes;                                                   *)
(*   SpecAmounts   submissions whose amounts differ in sign;               *)
(*   SpecContract  the FinanceTracker contract                             *)
(*                 (src/contracts/FinanceTracker.sol);                     *)
(*   SpecMode      src/server.js with its status and mode endpoints.       *)
(***************************************************************************)
EXTENDS Integers, Sequences, FiniteSets

\* ------------------------------------------------------------------ bounds

\* how many of the AVAILABLE_WALLETS entries the model keeps in the pool
PoolSize == 2
\* how many transactions the store may hold
MaxTx == 2
\* how many transactions a ledger read by the summary holds
MaxLedger == 3
\* the significant bits of a Number
Precision == 3
\* concurrent registration requests / concurrent transaction submissions
RegSlots == {1, 2}
SubSlots == {1, 2}
\* server.js: concurrent transaction submissions
SrvSlots == {1, 2}
\* the values the clock takes
ClockValues == {1, 2}
\* concurrent login requests
LoginSlots == {1, 2}
\* how many addTransaction calls the contract executes
MaxCalls == 3

\* ------------------------------------------------------- program constants

\* const AVAILABLE_WALLETS = [...] (addresses abbreviated), in definition order
AVAILABLE_WALLETS ==
    <<"0x90F8", "0xFFcf", "0x22d4", "0xE11B", "0xd03e",
      "0x95cE", "0x3E5e", "0x28a8", "0xACa9", "0x1dF6">>

\* the pool the model runs with: the first PoolSize addresses, same order
Pool == SubSeq(AVAILABLE_WALLETS, 1, PoolSize)

PoolSet == {Pool[i] : i \in 1..Len(Pool)}

\* TransactionSchema: type enum, category enum
TypeEnum == {"income", "expense"}
CategoryEnum == {"salary", "rent", "equipment", "utilities", "marketing", "other"}

\* error messages the handlers put in their responses
MsgRegRequired   == "Username, email, and password are required"
MsgDbUnavailable == "Database not available. Please try again later."
MsgUserExists    == "User with this email or username already exists"
MsgNoWallets     == "No more wallets available"
MsgTxRequired    == "Description, amount, and type are required"
MsgTxDbUnavailable == "Database not available"
MsgUserNotFound  == "User not found"
\* error.message of the errors thrown by the awaited library calls
MsgDupKey        == "E11000 duplicate key error"
\* a ValidationError's message names the paths that failed
MsgValidationType     == "Transaction validation failed: type"
MsgValidationCategory == "Transaction validation failed: category"
MsgValidationBoth     == "Transaction validation failed: type, category"
MsgStoreError    == "store operation failed"
MsgHashError     == "hash failed"
MsgLoginRequired == "Email and password are required"
MsgInvalidCredentials == "Invalid email or password"
\* bcryptjs, for an argument that is not a string
MsgIllegalArguments == "Illegal arguments: number, string"

\* ------------------------------------------------------------ request inputs

\* usernames and emails are numbered; 0 is a missing (falsy) field
NumNames == PoolSize + 1
Usernames == 1..NumNames
\* a request carries its own email (the number of its username) or the email
\* of the next username, so that both a shared username and a shared email occur
EmailsFor(u) == {u, (u % NumNames) + 1}
\* the register requests: every username with each of its emails and a
\* password, and one request for each missing field
RegisterBodies ==
    UNION {{[username |-> u, email |-> e, password |-> "secret1"] :
                e \in EmailsFor(u)} : u \in Usernames}
      \cup {[username |-> 0, email |-> 1, password |-> "secret1"],
            [username |-> 1, email |-> 0, password |-> "secret1"],
            [username |-> 1, email |-> 1, password |-> ""]}

\* "" stands for an absent (undefined) or empty body field: both are falsy
Receivers    == {"", "0xC0FFEE", Pool[1]}
\* the <<type, category, receiver>> a submission carries: both directions with
\* every receiver, a category inside and one outside the enum, a direction
\* outside the enum and a missing direction
Bodies ==
    ({"income", "expense"} \X {""} \X Receivers)
        \cup ({"income"} \X {"salary", "bogus"} \X {""})
        \cup ({"", "transfer"} \X {""} \X {""})
\* the submission requests: every body with a description and an amount, and
\* one request without a description and one with amount 0
SubmitBodies ==
    {[description |-> "Paycheck", amount |-> 5, type |-> b[1],
      category |-> b[2], receiver |-> b[3]] : b \in Bodies}
      \cup {[description |-> "", amount |-> 5, type |-> "income",
             category |-> "", receiver |-> ""],
            [description |-> "Paycheck", amount |-> 0, type |-> "income",
             category |-> "", receiver |-> ""]}

\* a token whose userId names no stored principal
ForeignUserId == 0

\* ------------------------------------------------------------------- state

VARIABLES
    dbConnected,      \* mongoose.connection.readyState === 1
    users,            \* the User collection, in insertion order
    txs,              \* the Transaction collection, in insertion order
    assignedWallets,  \* let assignedWallets = new Set()
    reg,              \* in-flight POST /api/auth/register handlers
    regResp,          \* the response the register handler sent last
    sub,              \* in-flight POST /api/transactions handlers
    subResp,          \* the response the submission handler sent last
    regFailed,        \* history: some registration was answered with an error
    now,              \* the clock that Date.now() and new Date() read
    listResp,         \* the response GET /api/transactions sent last
    sumResp,          \* the response GET /api/dashboard/summary sent last
    contractAddress,  \* server.js: let contractAddress
    financeTracker,   \* server.js: let financeTracker (TRUE: a contract object)
    useBlockchain,    \* server.js: let useBlockchain
    mockTransactions, \* server.js: let mockTransactions = []
    mockNextId,       \* server.js: let mockNextId = 1
    srvTxs,           \* server.js: its Transaction collection, in insertion order
    srv,              \* server.js: in-flight POST /api/transactions handlers
    srvResp,          \* server.js: the response a POST handler sent last
    srvList,          \* server.js: the response GET /api/transactions sent last
    srvStatus,        \* server.js: the response GET /api/status sent last
    login,            \* in-flight POST /api/auth/login handlers
    loginResp,        \* the response the login handler sent last
    chainTransactions, \* FinanceTracker: mapping(uint => Transaction) transactions
    transactionCount, \* FinanceTracker: uint transactionCount
    chainCalls,       \* history: the addTransaction calls executed, in order
    allTransactions   \* what getAllTransactions() returned last

\* the state of the read handlers of the auth server
readVars == <<now, listResp, sumResp>>

\* the state of server.js
serverVars == <<contractAddress, financeTracker, useBlockchain, mockTransactions,
                mockNextId, srvTxs, srv, srvResp, srvList, srvStatus>>

\* the state of the login handlers of the auth server
loginVars == <<login, loginResp>>

\* the state of the FinanceTracker contract and what a caller has read of it
chainVars == <<chainTransactions, transactionCount, chainCalls, allTransactions>>

vars == <<dbConnected, users, txs, assignedWallets, reg, regResp, sub, subResp,
          regFailed, readVars, serverVars, loginVars, chainVars>>

\* A response is its HTTP status, the error message of its body and, on
\* success, the walletAddress or transactionId the body carries.  The field
\* cause is no part of the response: it records which exit of the handler
\* sent it.
NoResp == [status |-> 0, error |-> "", wallet |-> "", transactionId |-> 0,
           cause |-> "none"]

Resp(status, error, cause) ==
    [status |-> status, error |-> error, wallet |-> "", transactionId |-> 0,
     cause |-> cause]

\* what the client sees of a response
Visible(resp) ==
    [status |-> resp.status, error |-> resp.error, wallet |-> resp.wallet,
     transactionId |-> resp.transactionId]

RegIdle == [pc |-> "idle", username |-> 0, email |-> 0, password |-> "",
            wallet |-> ""]

SubIdle == [pc |-> "idle", userId |-> 0, description |-> "", amount |-> 0,
            type |-> "", category |-> "", receiver |-> "",
            wallet |-> "", transactionId |-> 0, sender |-> "",
            transactionReceiver |-> "", timestamp |-> 0]

\* The response of GET /api/transactions: its status, the error message of
\* its body and, on success, the documents in the order returned.  userId and
\* writes are no part of the response: they record whose listing it is and how
\* many transactions were committed when it was made.
NoList == [status |-> 0, error |-> "", transactions |-> <<>>, userId |-> 0,
           writes |-> 0]

\* an object used as a map (byCategory, byMonth): its entries in the order
\* their keys were created
EmptyMap == <<>>

\* The response of GET /api/dashboard/summary: summary, the maps of analytics
\* by name, recentTransactions.  userId and cause are no part of the response:
\* they record whose summary it is and which exit of the handler sent it.
NoSummary ==
    [status |-> 0, error |-> "",
     summary |-> [totalIncome |-> 0, totalExpenses |-> 0, balance |-> 0,
                  transactionCount |-> 0],
     analytics |-> <<>>, recentTransactions |-> <<>>, userId |-> 0,
     cause |-> "none"]

\* server.js: a transaction object before the handler has built one
NoTransaction ==
    [transactionId |-> 0, id |-> 0, description |-> "", amount |-> 0,
     type |-> "", sender |-> "", timestamp |-> 0, blockchainHash |-> 0,
     status |-> ""]

SrvIdle == [pc |-> "idle", branch |-> "", transaction |-> NoTransaction]

\* server.js: the response of POST /api/transactions or POST /api/mode.
\* kind, branch and stored are no part of the response: they record which
\* route sent it, which branch of the submission handler, and the tier the
\* transaction was written to.
NoSrvResp ==
    [kind |-> "none", status |-> 0, success |-> FALSE, message |-> "",
     mode |-> "", transaction |-> NoTransaction, error |-> "",
     branch |-> "", stored |-> "none"]

\* server.js: the response of GET /api/transactions; source and writes record
\* the tier it was read from and how many transactions were stored then
NoSrvList == [status |-> 0, error |-> "", transactions |-> <<>>,
              source |-> "none", writes |-> 0]

\* server.js: the response of GET /api/status (its status, the error message
\* of its body and, on success, mode)
NoSrvStatus == [status |-> 0, error |-> "", mode |-> ""]

\* A JSON value of a request body, as typeof sees it.  A hashed password:
\* bcrypt.hash(password, 12) yields a string from which bcrypt.compare tells
\* whether a given string is the one that was hashed, and nothing else.
JsonString(v) == [typeof |-> "string", value |-> v]
JsonNumber(v) == [typeof |-> "number", value |-> v]
bcryptHash(password) == [bcrypt |-> password]

LoginIdle == [pc |-> "idle", email |-> 0, password |-> JsonString(""),
              user |-> 0]

\* The response of POST /api/auth/login: its status, the error message of its
\* body and, on success, the userId the token carries.  cause and attempt are
\* no part of the response: they record which exit of the handler sent it and
\* what the request tried (an unknown email, a known email with a wrong or
\* with the right password).
NoLoginResp == [status |-> 0, error |-> "", userId |-> 0, cause |-> "none",
                attempt |-> "none"]

\* struct Transaction with every member at its default value: what the
\* mapping holds under a key never written
ZeroTransaction ==
    [id |-> 0, description |-> "", amount |-> 0, transactionType |-> "",
     sender |-> "0x0", timestamp |-> 0]

\* A mapping(uint => Transaction) is kept as the function from the keys
\* written so far to what was written last; every other key reads as the
\* default value.
EmptyMapping == <<>>
MappingRead(mapping, key) ==
    IF key \in DOMAIN mapping THEN mapping[key] ELSE ZeroTransaction
MappingWrite(mapping, key, value) ==
    [k \in (DOMAIN mapping) \cup {key} |->
        IF k = key THEN value ELSE mapping[k]]

\* What a caller holds of getAllTransactions(): the array returned.  count is
\* no part of it: it records transactionCount at the time of the call.
NoRead == [records |-> <<>>, count |-> 0]

\* no login is in flight and none was answered
LoginInit ==
    /\ login = [l \in LoginSlots |-> LoginIdle]
    /\ loginResp = NoLoginResp

\* the contract after its constructor: transactionCount = 0, nothing stored
ChainInit ==
    /\ chainTransactions = EmptyMapping
    /\ transactionCount = 0
    /\ chainCalls = <<>>
    /\ allTransactions = NoRead

\* the read handlers have answered nothing yet
ReadsInit ==
    /\ now = 1
    /\ listResp = NoList
    /\ sumResp = NoSummary

\* server.js as it starts when no deployment.json is found
ServerInit ==
    /\ contractAddress = ""
    /\ financeTracker = FALSE
    /\ useBlockchain = FALSE
    /\ mockTransactions = <<>>
    /\ mockNextId = 1
    /\ srvTxs = <<>>
    /\ srv = [s \in SrvSlots |-> SrvIdle]
    /\ srvResp = NoSrvResp
    /\ srvList = NoSrvList
    /\ srvStatus = NoSrvStatus

Init ==
    /\ dbConnected = FALSE
    /\ users = <<>>
    /\ txs = <<>>
    /\ assignedWallets = {}
    /\ reg = [r \in RegSlots |-> RegIdle]
    /\ regResp = NoResp
    /\ sub = [s \in SubSlots |-> SubIdle]
    /\ subResp = NoResp
    /\ regFailed = FALSE
    /\ ReadsInit
    /\ ServerInit
    /\ LoginInit
    /\ ChainInit

\* ----------------------------------------------------------- the database

\* connectDB resolves / the connection comes back
DbConnect ==
    /\ ~dbConnected
    /\ dbConnected' = TRUE
    /\ UNCHANGED <<users, txs, assignedWallets, reg, regResp, sub, subResp,
                   regFailed,
                   readVars, serverVars, loginVars,
                   chainVars>>

\* the connection is lost (readyState leaves 1)
DbDisconnect ==
    /\ dbConnected
    /\ dbConnected' = FALSE
    /\ UNCHANGED <<users, txs, assignedWallets, reg, regResp, sub, subResp,
                   regFailed,
                   readVars, serverVars, loginVars,
                   chainVars>>


\* mutant: the handlers do not look at the connection
NotConnected_NoCheck(connected) == FALSE

\* if (mongoose.connection.readyState !== 1): the check the handlers make
\* before they touch the store
NotConnected(connected) == ~connected

\* the server process ends (SIGINT: the connection is closed, then
\* process.exit) and is started again: the module is evaluated anew, so
\* assignedWallets is a new empty Set, connectDB() is called and no handler
\* is in flight; the collections are in the database and stay
Restart ==
    /\ dbConnected' = FALSE
    /\ assignedWallets' = {}
    /\ reg' = [r \in RegSlots |-> RegIdle]
    /\ sub' = [s \in SubSlots |-> SubIdle]
    /\ login' = [l \in LoginSlots |-> LoginIdle]
    /\ UNCHANGED <<users, txs, regResp, subResp, regFailed, readVars,
                   serverVars, loginResp, chainVars>>

\* --------------------------------------------------------- wallet assignment

\* mutant: the address found is returned but not added to assignedWallets
getAvailableWallet_NoRecord(assigned) ==
    LET free == {i \in 1..Len(Pool) : Pool[i] \notin assigned}
    IN  IF free = {}
        THEN [threw |-> TRUE, wallet |-> "", assigned |-> assigned]
        ELSE LET i == CHOOSE k \in free : \A j \in free : k <= j
             IN  [threw |-> FALSE, wallet |-> Pool[i], assigned |-> assigned]

\* mutant: with every address assigned, the first address is handed out again
\* instead of throwing
getAvailableWallet_Wraps(assigned) ==
    LET free == {i \in 1..Len(Pool) : Pool[i] \notin assigned}
    IN  IF free = {}
        THEN [threw |-> FALSE, wallet |-> Pool[1], assigned |-> assigned]
        ELSE LET i == CHOOSE k \in free : \A j \in free : k <= j
             IN  [threw |-> FALSE, wallet |-> Pool[i],
                  assigned |-> assigned \cup {Pool[i]}]

\* mutant: the scan returns the last free address instead of the first
getAvailableWallet_LastFree(assigned) ==
    LET free == {i \in 1..Len(Pool) : Pool[i] \notin assigned}
    IN  IF free = {}
        THEN [threw |-> TRUE, wallet |-> "", assigned |-> assigned]
        ELSE LET i == CHOOSE k \in free : \A j \in free : k >= j
             IN  [threw |-> FALSE, wallet |-> Pool[i],
                  assigned |-> assigned \cup {Pool[i]}]

\* mutant: a draw releases the addresses assigned before it
getAvailableWallet_Releases(assigned) ==
    LET free == {i \in 1..Len(Pool) : Pool[i] \notin assigned}
    IN  IF free = {}
        THEN [threw |-> TRUE, wallet |-> "", assigned |-> assigned]
        ELSE LET i == CHOOSE k \in free : \A j \in free : k <= j
             IN  [threw |-> FALSE, wallet |-> Pool[i], assigned |-> {Pool[i]}]

\* mutant: the scan does not consult assignedWallets
getAvailableWallet_NoLookup(assigned) ==
    [threw |-> FALSE, wallet |-> Pool[1], assigned |-> assigned \cup {Pool[1]}]

\* function getAvailableWallet(): the first pool address, in definition order,
\* that is not in assignedWallets; it is added to the set and returned.
\* Throws Error('No more wallets available') when there is none.
getAvailableWallet(assigned) ==
    LET free == {i \in 1..Len(Pool) : Pool[i] \notin assigned}
    IN  IF free = {}
        THEN [threw |-> TRUE, wallet |-> "", assigned |-> assigned]
        ELSE LET i == CHOOSE k \in free : \A j \in free : k <= j
             IN  [threw |-> FALSE, wallet |-> Pool[i],
                  assigned |-> assigned \cup {Pool[i]}]

\* ------------------------------------------------------------ registration

\* User.findOne({ $or: [{ email }, { username }] })
ExistingUser(username, email) ==
    \E i \in 1..Len(users) :
        users[i].email = email \/ users[i].username = username

\* mutant: username and email carry no unique index
UserDuplicateKey_NoIndex(username, email) == FALSE

\* UserSchema: username and email carry unique indexes, checked at insert
UserDuplicateKey(username, email) ==
    \E i \in 1..Len(users) :
        users[i].username = username \/ users[i].email = email

RegRespond(r, resp) ==
    /\ reg' = [reg EXCEPT ![r] = RegIdle]
    /\ regResp' = resp
    /\ regFailed' = (regFailed \/ resp.status >= 400)

\* POST /api/auth/register with body b, up to the first await: field
\* validation and the connection check
RegisterStart(r, b) ==
    /\ reg[r].pc = "idle"
    /\ LET u == b.username  e == b.email  p == b.password IN
        IF u = 0 \/ e = 0 \/ p = ""
        THEN RegRespond(r, Resp(400, MsgRegRequired, "missingField"))
        ELSE IF NotConnected(dbConnected)
        THEN RegRespond(r, Resp(503, MsgDbUnavailable, "dbUnavailable"))
        ELSE /\ reg' = [reg EXCEPT ![r] =
                    [pc |-> "findOne", username |-> u, email |-> e,
                     password |-> p, wallet |-> ""]]
             /\ UNCHANGED <<regResp, regFailed>>
    /\ UNCHANGED <<dbConnected, users, txs, assignedWallets, sub, subResp,
                   readVars, serverVars, loginVars,
                   chainVars>>

\* await User.findOne(...) resolves; the existing-user check and the call of
\* getAvailableWallet() run in the same continuation
RegisterFindOne(r) ==
    /\ reg[r].pc = "findOne"
    /\ \/ /\ RegRespond(r, Resp(500, MsgStoreError, "storeError"))
          /\ UNCHANGED assignedWallets
       \/ /\ dbConnected
          /\ IF ExistingUser(reg[r].username, reg[r].email)
             THEN /\ RegRespond(r, Resp(400, MsgUserExists, "userExists"))
                  /\ UNCHANGED assignedWallets
             ELSE LET w == getAvailableWallet(assignedWallets)
                  IN  IF w.threw
                      THEN /\ RegRespond(r, Resp(500, MsgNoWallets, "noWallets"))
                           /\ assignedWallets' = w.assigned
                      ELSE /\ assignedWallets' = w.assigned
                           /\ reg' = [reg EXCEPT ![r].pc = "hash",
                                                 ![r].wallet = w.wallet]
                           /\ UNCHANGED <<regResp, regFailed>>
    /\ UNCHANGED <<dbConnected, users, txs, sub, subResp, readVars, serverVars,
                   loginVars, chainVars>>

\* await bcrypt.hash(password, 12) resolves, or rejects (bcryptjs rejects a
\* password that is not a string, which the truthiness validation lets pass)
RegisterHash(r) ==
    /\ reg[r].pc = "hash"
    /\ \/ /\ reg' = [reg EXCEPT ![r].pc = "save"]
          /\ UNCHANGED <<regResp, regFailed>>
       \/ RegRespond(r, Resp(500, MsgHashError, "hashError"))
    /\ UNCHANGED <<dbConnected, users, txs, assignedWallets, sub, subResp,
                   readVars, serverVars, loginVars,
                   chainVars>>

\* await user.save() resolves or rejects; on success the 201 response carries
\* the principal with its walletAddress
RegisterSave(r) ==
    /\ reg[r].pc = "save"
    /\ \/ /\ RegRespond(r, Resp(500, MsgStoreError, "storeError"))
          /\ UNCHANGED users
       \/ /\ dbConnected
          /\ IF UserDuplicateKey(reg[r].username, reg[r].email)
             THEN /\ RegRespond(r, Resp(500, MsgDupKey, "duplicateKey"))
                  /\ UNCHANGED users
             ELSE /\ users' = Append(users,
                        [username |-> reg[r].username, email |-> reg[r].email,
                         password |-> bcryptHash(reg[r].password),
                         walletAddress |-> reg[r].wallet])
                  /\ RegRespond(r, [Resp(201, "", "created") EXCEPT
                                       !.wallet = reg[r].wallet])
    /\ UNCHANGED <<dbConnected, txs, assignedWallets, sub, subResp, readVars,
                   serverVars, loginVars,
                   chainVars>>

\* -------------------------------------------------------------------- login

\* !value of a JSON value: the empty string and the number 0 are falsy
Falsy(v) ==
    \/ v.typeof = "string" /\ v.value = ""
    \/ v.typeof = "number" /\ v.value = "0"

\* the login requests: a stored email (that of principal 1), an email no
\* principal has, a missing email; the password that principal 1 registered
\* with, another string, a missing password and a JSON number
LoginBodies ==
    {[email |-> e, password |-> pw] :
        e \in {0, 1, NumNames},
        pw \in {JsonString("secret1"), JsonString("wrong"), JsonString(""),
                JsonNumber("12345")}}

\* bcrypt.compare(s, hash) of bcryptjs: rejects unless both arguments are
\* strings (the stored hash is one), else resolves to whether s is the string
\* that was hashed
bcryptCompare(s, hash) ==
    IF s.typeof # "string"
    THEN [threw |-> TRUE, valid |-> FALSE]
    ELSE [threw |-> FALSE, valid |-> hash = bcryptHash(s.value)]

\* User.findOne({ email }): the position of the first principal stored with
\* the email, 0 (null) when there is none
FindUserByEmail(email) ==
    IF \E i \in 1..Len(users) : users[i].email = email
    THEN CHOOSE i \in 1..Len(users) :
            /\ users[i].email = email
            /\ \A j \in 1..Len(users) : users[j].email = email => i <= j
    ELSE 0

LoginResponse(status, error, cause, attempt) ==
    [NoLoginResp EXCEPT !.status = status, !.error = error, !.cause = cause,
                        !.attempt = attempt]

LoginRespond(l, resp) ==
    /\ login' = [login EXCEPT ![l] = LoginIdle]
    /\ loginResp' = resp

\* POST /api/auth/login with body b, up to the first await: field validation
\* and the connection check
LoginStart(l, b) ==
    /\ login[l].pc = "idle"
    /\ IF b.email = 0 \/ Falsy(b.password)
       THEN LoginRespond(l, LoginResponse(400, MsgLoginRequired,
                                          "missingField", "none"))
       ELSE IF NotConnected(dbConnected)
       THEN LoginRespond(l, LoginResponse(503, MsgDbUnavailable,
                                          "dbUnavailable", "none"))
       ELSE /\ login' = [login EXCEPT ![l] =
                    [pc |-> "findOne", email |-> b.email,
                     password |-> b.password, user |-> 0]]
            /\ UNCHANGED loginResp
    /\ UNCHANGED <<dbConnected, users, txs, assignedWallets, reg, regResp, sub,
                   subResp, regFailed, readVars, serverVars, chainVars>>

\* await User.findOne({ email }) resolves or rejects
LoginFindOne(l) ==
    /\ login[l].pc = "findOne"
    /\ \/ LoginRespond(l, LoginResponse(500, MsgStoreError, "storeError",
                                         "none"))
       \/ /\ dbConnected
          /\ LET user == FindUserByEmail(login[l].email)
             IN  IF user = 0
                 THEN LoginRespond(l, LoginResponse(400, MsgInvalidCredentials,
                                          "noUser", "unknownEmail"))
                 ELSE /\ login' = [login EXCEPT ![l].pc = "compare",
                                                 ![l].user = user]
                      /\ UNCHANGED loginResp
    /\ UNCHANGED <<dbConnected, users, txs, assignedWallets, reg, regResp, sub,
                   subResp, regFailed, readVars, serverVars, chainVars>>

\* await bcrypt.compare(password, user.password) resolves or rejects; on
\* success the response carries a token for the principal
LoginCompare(l) ==
    /\ login[l].pc = "compare"
    /\ LET hash    == users[login[l].user].password
           result  == bcryptCompare(login[l].password, hash)
           attempt == IF /\ login[l].password.typeof = "string"
                         /\ hash = bcryptHash(login[l].password.value)
                      THEN "rightPassword" ELSE "wrongPassword"
       IN  IF result.threw
           THEN LoginRespond(l, LoginResponse(500, MsgIllegalArguments,
                                              "compareError", attempt))
           ELSE IF ~result.valid
           THEN LoginRespond(l, LoginResponse(400, MsgInvalidCredentials,
                                              "badPassword", attempt))
           ELSE LoginRespond(l, [LoginResponse(200, "", "loggedIn", attempt)
                                    EXCEPT !.userId = login[l].user])
    /\ UNCHANGED <<dbConnected, users, txs, assignedWallets, reg, regResp, sub,
                   subResp, regFailed, readVars, serverVars, chainVars>>

\* ------------------------------------------------- transaction submission

\* parseFloat(amount) of a JSON number with an integer value is that number
parseFloat(amount) == amount

\* mutant: the first id is 0 instead of 1
NextTransactionId_ZeroBased(stored) ==
    IF Len(stored) = 0 THEN 0
    ELSE LET last == CHOOSE i \in 1..Len(stored) :
                        \A j \in 1..Len(stored) :
                            stored[j].transactionId <= stored[i].transactionId
         IN  stored[last].transactionId + 1

\* const transactionId = lastTransaction ? lastTransaction.transactionId + 1 : 1
\* with lastTransaction = Transaction.findOne().sort({ transactionId: -1 })
NextTransactionId(stored) ==
    IF Len(stored) = 0 THEN 1
    ELSE LET last == CHOOSE i \in 1..Len(stored) :
                        \A j \in 1..Len(stored) :
                            stored[j].transactionId <= stored[i].transactionId
         IN  stored[last].transactionId + 1

\* const sender = type === 'income' ? (receiver || 'external_sender')
\*                                  : user.walletAddress
Sender(type, receiver, walletAddress) ==
    IF type = "income"
    THEN (IF receiver = "" THEN "external_sender" ELSE receiver)
    ELSE walletAddress

\* mutant: the receiver is taken from the request whatever the direction
TransactionReceiver_IgnoresType(type, receiver, walletAddress) ==
    IF receiver = "" THEN "external_receiver" ELSE receiver

\* const transactionReceiver = type === 'income' ? user.walletAddress
\*                                  : (receiver || 'external_receiver')
TransactionReceiver(type, receiver, walletAddress) ==
    IF type = "income"
    THEN walletAddress
    ELSE (IF receiver = "" THEN "external_receiver" ELSE receiver)

\* mutant: type is a plain String, with no enum
SchemaValid_NoTypeEnum(doc) == doc.category \in CategoryEnum

\* TransactionSchema validators run by save(): the enum of type and of category
SchemaValid(doc) ==
    /\ doc.type \in TypeEnum
    /\ doc.category \in CategoryEnum

\* the message of the ValidationError that save() rejects with
ValidationMessage(doc) ==
    IF doc.type \notin TypeEnum
    THEN (IF doc.category \notin CategoryEnum THEN MsgValidationBoth
                                              ELSE MsgValidationType)
    ELSE MsgValidationCategory

\* mutant: transactionId carries no unique index
TransactionDuplicateKey_NoIndex(stored, doc) == FALSE

\* the unique index on transactionId, checked by the store at insert
TransactionDuplicateKey(stored, doc) ==
    \E i \in 1..Len(stored) : stored[i].transactionId = doc.transactionId

\* new Transaction({...}) as built by the handler
NewTransaction(s) ==
    [transactionId |-> sub[s].transactionId,
     description   |-> sub[s].description,
     amount        |-> parseFloat(sub[s].amount),
     type          |-> sub[s].type,
     category      |-> IF sub[s].category = "" THEN "other" ELSE sub[s].category,
     sender        |-> sub[s].sender,
     receiver      |-> sub[s].transactionReceiver,
     timestamp     |-> sub[s].timestamp,
     status        |-> "completed",
     createdBy     |-> sub[s].userId]

\* mutant: the catch block answers with a fixed message
CatchResponse_Generic(message, cause) ==
    Resp(500, "Internal server error", cause)

\* what the catch block answers for an error thrown in the handler:
\* res.status(500).json({ success: false, error: error.message })
CatchResponse(message, cause) == Resp(500, message, cause)

InFlightSubs == {s \in SubSlots : sub[s].pc # "idle"}

\* mutant: the amount is not among the required fields
MissingRequired_NoAmount(description, amount, type) ==
    description = "" \/ type = ""

\* if (!description || !amount || !type): an absent or empty text and the
\* amount 0 are falsy
MissingRequired(description, amount, type) ==
    description = "" \/ amount = 0 \/ type = ""

SubRespond(s, resp) ==
    /\ sub' = [sub EXCEPT ![s] = SubIdle]
    /\ subResp' = resp

\* the userIds a verified token can carry: a stored principal's, or one that
\* names no stored principal
TokenUserIds == (1..Len(users)) \cup {ForeignUserId}

\* POST /api/transactions with body b, up to the first await: field
\* validation and the connection check.  (A request enters the store-accessing part only while
\* the Transaction collection has room for it within MaxTx.)
SubmitStart(s, b) ==
    /\ sub[s].pc = "idle"
    /\ LET d == b.description  a == b.amount  t == b.type
            c == b.category  rc == b.receiver IN
        IF MissingRequired(d, a, t)
        THEN SubRespond(s, Resp(400, MsgTxRequired, "missingField"))
        ELSE IF NotConnected(dbConnected)
        THEN SubRespond(s, Resp(503, MsgTxDbUnavailable, "dbUnavailable"))
        ELSE /\ Len(txs) + Cardinality(InFlightSubs) < MaxTx
             /\ \E uid \in TokenUserIds :
                  sub' = [sub EXCEPT ![s] =
                    [SubIdle EXCEPT !.pc = "findById", !.userId = uid,
                                    !.description = d, !.amount = a,
                                    !.type = t, !.category = c,
                                    !.receiver = rc]]
             /\ UNCHANGED subResp
    /\ UNCHANGED <<dbConnected, users, txs, assignedWallets, reg, regResp,
                   regFailed, readVars, serverVars, loginVars,
                   chainVars>>

\* await User.findById(req.user.userId) resolves
SubmitFindById(s) ==
    /\ sub[s].pc = "findById"
    /\ \/ SubRespond(s, CatchResponse(MsgStoreError, "storeError"))
       \/ /\ dbConnected
          /\ IF sub[s].userId \notin 1..Len(users)
             THEN SubRespond(s, Resp(404, MsgUserNotFound, "userNotFound"))
             ELSE /\ sub' = [sub EXCEPT
                        ![s].pc = "findLast",
                        ![s].wallet = users[sub[s].userId].walletAddress]
                  /\ UNCHANGED subResp
    /\ UNCHANGED <<dbConnected, users, txs, assignedWallets, reg, regResp,
                   regFailed, readVars, serverVars, loginVars,
                   chainVars>>

\* await Transaction.findOne().sort({ transactionId: -1 }) resolves; the id,
\* sender and receiver are computed and the document is built (the schema
\* default of timestamp, Date.now, is applied when the document is built)
SubmitFindLast(s) ==
    /\ sub[s].pc = "findLast"
    /\ \/ SubRespond(s, CatchResponse(MsgStoreError, "storeError"))
       \/ /\ dbConnected
          /\ sub' = [sub EXCEPT
                ![s].pc = "save",
                ![s].transactionId = NextTransactionId(txs),
                ![s].sender =
                    Sender(sub[s].type, sub[s].receiver, sub[s].wallet),
                ![s].transactionReceiver =
                    TransactionReceiver(sub[s].type, sub[s].receiver, sub[s].wallet),
                ![s].timestamp = now]
          /\ UNCHANGED subResp
    /\ UNCHANGED <<dbConnected, users, txs, assignedWallets, reg, regResp,
                   regFailed, readVars, serverVars, loginVars,
                   chainVars>>

\* await transaction.save() resolves or rejects
SubmitSave(s) ==
    /\ sub[s].pc = "save"
    /\ \/ /\ SubRespond(s, CatchResponse(MsgStoreError, "storeError"))
          /\ UNCHANGED txs
       \/ /\ dbConnected
          /\ IF ~SchemaValid(NewTransaction(s))
             THEN /\ SubRespond(s, CatchResponse(ValidationMessage(NewTransaction(s)),
                                                "validation"))
                  /\ UNCHANGED txs
             ELSE IF TransactionDuplicateKey(txs, NewTransaction(s))
             THEN /\ SubRespond(s, CatchResponse(MsgDupKey, "duplicateId"))
                  /\ UNCHANGED txs
             ELSE /\ txs' = Append(txs, NewTransaction(s))
                  /\ SubRespond(s, [Resp(201, "", "created") EXCEPT
                                       !.transactionId = sub[s].transactionId])
    /\ UNCHANGED <<dbConnected, users, assignedWallets, reg, regResp, regFailed,
                   readVars, serverVars, loginVars,
                   chainVars>>

\* ---------------------------------------------------------------- the clock

\* time passes: Date.now() and new Date() return a later value
Tick ==
    /\ now + 1 \in ClockValues
    /\ now' = now + 1
    /\ UNCHANGED <<dbConnected, users, txs, assignedWallets, reg, regResp, sub,
                   subResp, regFailed, listResp, sumResp, serverVars, loginVars,
                   chainVars>>

\* ------------------------------------------------------- Number arithmetic

\* A Number is a binary floating-point value: the result of + and - is the
\* exact result rounded to the nearest representable value, ties to the even
\* significand.  The model keeps Precision significant bits where the
\* language keeps 53, and no exponent limit.
RoundToPrecision(n) ==
    LET m == IF n < 0 THEN 0 - n ELSE n IN
    IF m < 2^Precision THEN n
    ELSE LET e    == CHOOSE k \in 1..m :
                         m >= 2^(Precision + k - 1) /\ m < 2^(Precision + k)
             q    == m \div 2^e
             r    == m % 2^e
             half == 2^(e - 1)
             up   == r > half \/ (r = half /\ q % 2 = 1)
             v    == (IF up THEN q + 1 ELSE q) * 2^e
         IN  IF n < 0 THEN 0 - v ELSE v

\* x + y on Numbers
NumberAdd(x, y) == RoundToPrecision(x + y)

\* x - y on Numbers
NumberSub(x, y) == RoundToPrecision(x - y)

\* ----------------------------------------------------------- store queries

\* the permutations of 1..n
Permutations(n) ==
    {p \in [1..n -> 1..n] : \A i, j \in 1..n : i # j => p[i] # p[j]}

\* mutant: the query has no filter
FindByCreator_All(stored, userId) == stored

\* Transaction.find({ createdBy: userId }): the documents of the principal, in
\* the order of the collection
FindByCreator(stored, userId) ==
    SelectSeq(stored, LAMBDA t : t.createdBy = userId)

\* .sort({ timestamp: -1 }): the results a query sorted by descending
\* timestamp may return.  The store fixes no order among documents with equal
\* timestamps, and none between two executions of the query.
SortByTimestampDesc(docs) ==
    {[i \in 1..Len(docs) |-> docs[p[i]]] :
        p \in {q \in Permutations(Len(docs)) :
                  \A i, j \in 1..Len(docs) :
                      i < j => docs[q[i]].timestamp >= docs[q[j]].timestamp}}

\* ------------------------------------------------------ transaction listing

\* mutant: a listing removes from the store what it returns
Listing_Consumes(userId) ==
    /\ dbConnected
    /\ listResp' = [NoList EXCEPT !.status = 200,
                                  !.transactions = FindByCreator(txs, userId),
                                  !.userId = userId, !.writes = Len(txs)]
    /\ txs' = SelectSeq(txs, LAMBDA t : t.createdBy # userId)
    /\ UNCHANGED <<dbConnected, users, assignedWallets, reg, regResp, sub,
                   subResp, regFailed, now, sumResp, serverVars, loginVars,
                   chainVars>>

\* GET /api/transactions: the connection check, then the awaited query and
\* the response
Listing(userId) ==
    /\ IF NotConnected(dbConnected)
       THEN listResp' = [NoList EXCEPT !.status = 503,
                                       !.error = MsgTxDbUnavailable,
                                       !.userId = userId, !.writes = Len(txs)]
       ELSE \/ listResp' = [NoList EXCEPT !.status = 500,
                                          !.error = MsgStoreError,
                                          !.userId = userId, !.writes = Len(txs)]
            \/ \E result \in SortByTimestampDesc(FindByCreator(txs, userId)) :
                  listResp' = [NoList EXCEPT !.status = 200,
                                             !.transactions = result,
                                             !.userId = userId,
                                             !.writes = Len(txs)]
    /\ UNCHANGED <<dbConnected, users, txs, assignedWallets, reg, regResp, sub,
                   subResp, regFailed, now, sumResp, serverVars, loginVars,
                   chainVars>>

\* -------------------------------------------------------- dashboard summary

\* transactions.filter(t => t.type === type).reduce((sum, t) => sum + t.amount, 0)
RECURSIVE SumOfType(_, _)
SumOfType(transactions, type) ==
    IF Len(transactions) = 0 THEN 0
    ELSE LET front == SubSeq(transactions, 1, Len(transactions) - 1)
             t     == transactions[Len(transactions)]
         IN  IF t.type = type
             THEN NumberAdd(SumOfType(front, type), t.amount)
             ELSE SumOfType(front, type)

totalIncome(transactions) == SumOfType(transactions, "income")

totalExpenses(transactions) == SumOfType(transactions, "expense")

balance(transactions) ==
    NumberSub(totalIncome(transactions), totalExpenses(transactions))

\* mutant: the amount is always added to the income of the bucket
FoldInto_AllIncome(acc, key, type, amount) ==
    LET acc1 == IF \E i \in 1..Len(acc) : acc[i].key = key THEN acc
                ELSE Append(acc, [key |-> key, income |-> 0, expense |-> 0,
                                  total |-> 0])
        k    == CHOOSE i \in 1..Len(acc1) : acc1[i].key = key
    IN  [acc1 EXCEPT ![k].income = NumberAdd(@, amount),
                     ![k].total = NumberAdd(@, amount)]

\* one step of the reduce callbacks of categoryData and monthlyData:
\*   if (!acc[key]) acc[key] = { income: 0, expense: 0, total: 0 };
\*   acc[key][transaction.type] += transaction.amount;
\*   acc[key].total += transaction.amount;
\* (every stored type is income or expense)
FoldInto(acc, key, type, amount) ==
    LET acc1 == IF \E i \in 1..Len(acc) : acc[i].key = key THEN acc
                ELSE Append(acc, [key |-> key, income |-> 0, expense |-> 0,
                                  total |-> 0])
        k    == CHOOSE i \in 1..Len(acc1) : acc1[i].key = key
    IN  [acc1 EXCEPT
            ![k].income  = IF type = "income" THEN NumberAdd(@, amount) ELSE @,
            ![k].expense = IF type = "expense" THEN NumberAdd(@, amount) ELSE @,
            ![k].total   = NumberAdd(@, amount)]

\* const categoryData = transactions.reduce(..., {}) keyed by category
RECURSIVE categoryData(_)
categoryData(transactions) ==
    IF Len(transactions) = 0 THEN EmptyMap
    ELSE LET t == transactions[Len(transactions)]
         IN  FoldInto(categoryData(SubSeq(transactions, 1, Len(transactions) - 1)),
                      t.category, t.type, t.amount)

\* transaction.timestamp.toISOString().substring(0, 7): the calendar month a
\* timestamp falls in (two clock values to the month)
YearMonth(timestamp) == timestamp \div 2

\* const monthlyData = transactions.reduce(..., {}) keyed by month
\* (src/unnamed/part_001)
RECURSIVE monthlyData(_)
monthlyData(transactions) ==
    IF Len(transactions) = 0 THEN EmptyMap
    ELSE LET t == transactions[Len(transactions)]
         IN  FoldInto(monthlyData(SubSeq(transactions, 1, Len(transactions) - 1)),
                      YearMonth(t.timestamp), t.type, t.amount)

\* transactions.slice(0, 5).map(t => ({ ... }))
recentTransactions(transactions) ==
    [i \in 1..(IF Len(transactions) < 5 THEN Len(transactions) ELSE 5) |->
        [description |-> transactions[i].description,
         amount      |-> transactions[i].amount,
         type        |-> transactions[i].type,
         category    |-> transactions[i].category,
         date        |-> transactions[i].timestamp]]

\* mutant: a principal without transactions is answered with an error
SummaryBody_EmptyIsError(transactions, maps, userId) ==
    IF Len(transactions) = 0
    THEN [NoSummary EXCEPT !.status = 404, !.error = "No transactions",
                           !.userId = userId, !.cause = "computed"]
    ELSE [NoSummary EXCEPT
            !.status = 200,
            !.summary = [totalIncome      |-> totalIncome(transactions),
                         totalExpenses    |-> totalExpenses(transactions),
                         balance          |-> balance(transactions),
                         transactionCount |-> Len(transactions)],
            !.analytics = maps,
            !.recentTransactions = recentTransactions(transactions),
            !.userId = userId, !.cause = "computed"]

\* res.json({ success: true, summary: {...}, analytics: {...},
\*            recentTransactions: [...] })
SummaryBody(transactions, maps, userId) ==
    [NoSummary EXCEPT
        !.status = 200,
        !.summary = [totalIncome      |-> totalIncome(transactions),
                     totalExpenses    |-> totalExpenses(transactions),
                     balance          |-> balance(transactions),
                     transactionCount |-> Len(transactions)],
        !.analytics = maps,
        !.recentTransactions = recentTransactions(transactions),
        !.userId = userId, !.cause = "computed"]

\* GET /api/dashboard/summary: the connection check, then the awaited query,
\* the reductions and the response.  (A query without a sort returns the
\* documents in the order of the collection.)
Summary(userId) ==
    /\ IF NotConnected(dbConnected)
       THEN sumResp' = [NoSummary EXCEPT !.status = 503,
                                         !.error = MsgTxDbUnavailable,
                                         !.userId = userId,
                                         !.cause = "dbUnavailable"]
       ELSE \/ sumResp' = [NoSummary EXCEPT !.status = 500,
                                            !.error = MsgStoreError,
                                            !.userId = userId,
                                            !.cause = "storeError"]
            \/ LET transactions == FindByCreator(txs, userId)
               IN  sumResp' = SummaryBody(transactions,
                        <<[name |-> "byCategory",
                           map |-> categoryData(transactions)]>>,
                        userId)
    /\ UNCHANGED <<dbConnected, users, txs, assignedWallets, reg, regResp, sub,
                   subResp, regFailed, now, listResp, serverVars, loginVars,
                   chainVars>>

\* GET /api/dashboard/summary of src/unnamed/part_001: no connection check
\* (the query fails when the store cannot serve it), and analytics carries
\* byMonth next to byCategory
SummaryMonthly(userId) ==
    /\ \/ sumResp' = [NoSummary EXCEPT !.status = 500,
                                       !.error = MsgStoreError,
                                       !.userId = userId,
                                       !.cause = "storeError"]
       \/ /\ dbConnected
          /\ LET transactions == FindByCreator(txs, userId)
             IN  sumResp' = SummaryBody(transactions,
                      <<[name |-> "byCategory",
                         map |-> categoryData(transactions)],
                        [name |-> "byMonth",
                         map |-> monthlyData(transactions)]>>,
                      userId)
    /\ UNCHANGED <<dbConnected, users, txs, assignedWallets, reg, regResp, sub,
                   subResp, regFailed, now, listResp, serverVars, loginVars,
                   chainVars>>

\* ------------------------------------------------------------------ server.js
\* The server of src/server.js has no principals and two storage tiers: its
\* Transaction collection and the array mockTransactions.

\* the state of the auth server, which server.js does not touch
authVars == <<users, txs, assignedWallets, reg, regResp, sub, subResp,
              regFailed, listResp, sumResp>>

\* what require('./deployment.json') yields at startup: no file, a file with
\* an address and no abi, a file with an address and an abi
Deployments == {"none", "addressOnly", "full"}

\* the submissions sent to server.js ("" is an absent senderAddress)
SrvBodies ==
    {[description |-> "Coffee", amount |-> 3, type |-> "expense",
      senderAddress |-> ""],
     [description |-> "Paycheck", amount |-> 5, type |-> "income",
      senderAddress |-> "0xC0FFEE"]}

\* blockchain branch: new Transaction({ transactionId: mockNextId++, ... }).
\* blockchainHash is a random string: a fresh value, here the number of the
\* request.
SrvBlockchainTransaction(b) ==
    [transactionId  |-> mockNextId,
     id             |-> 0,
     description    |-> b.description,
     amount         |-> b.amount,
     type           |-> b.type,
     sender         |-> IF b.senderAddress = "" THEN "blockchain_user"
                                                ELSE b.senderAddress,
     timestamp      |-> now,
     blockchainHash |-> mockNextId,
     status         |-> "blockchain_pending"]

\* mutant: the mock branch numbers its transactions by the length of the array
SrvMockTransaction_ArrayLength(b) ==
    [transactionId  |-> 0,
     id             |-> Len(mockTransactions) + 1,
     description    |-> b.description,
     amount         |-> b.amount,
     type           |-> b.type,
     sender         |-> IF b.senderAddress = "" THEN "mock_user"
                                                ELSE b.senderAddress,
     timestamp      |-> now,
     blockchainHash |-> mockNextId,
     status         |-> "completed"]

\* mock branch: const transaction = { id: mockNextId++, ... }
SrvMockTransaction(b) ==
    [transactionId  |-> 0,
     id             |-> mockNextId,
     description    |-> b.description,
     amount         |-> b.amount,
     type           |-> b.type,
     sender         |-> IF b.senderAddress = "" THEN "mock_user"
                                                ELSE b.senderAddress,
     timestamp      |-> now,
     blockchainHash |-> mockNextId,
     status         |-> "completed"]

\* new Transaction(transaction): the document keeps the paths of the schema,
\* and id is none of them
SrvDocument(transaction) == [transaction EXCEPT !.id = 0]

\* res.json({ success: true, message: ..., transaction: transaction,
\*            mode: 'blockchain' | 'mock' })
SrvSubmitResponse(branch, transaction, stored) ==
    [NoSrvResp EXCEPT
        !.kind = "submit", !.status = 200, !.success = TRUE,
        !.message = IF branch = "blockchain"
                    THEN "Transaction added (Blockchain Mode)"
                    ELSE "Transaction added (Mock Mode)",
        !.mode = branch,
        !.transaction = transaction,
        !.branch = branch, !.stored = stored]

\* POST /api/transactions up to its await: the branch is chosen, the
\* transaction is built and takes mockNextId; when the database is not
\* connected the transaction is pushed to mockTransactions and the response
\* is sent.  (A request is accepted only while mockNextId is within MaxTx.)
SrvSubmitStart(s) ==
    /\ srv[s].pc = "idle"
    /\ mockNextId <= MaxTx
    /\ \E b \in SrvBodies :
        LET branch == IF useBlockchain /\ financeTracker THEN "blockchain"
                                                         ELSE "mock"
            transaction == IF branch = "blockchain"
                           THEN SrvBlockchainTransaction(b)
                           ELSE SrvMockTransaction(b)
        IN  /\ mockNextId' = mockNextId + 1
            /\ IF dbConnected
               THEN /\ srv' = [srv EXCEPT ![s] =
                            [pc |-> "save", branch |-> branch,
                             transaction |-> transaction]]
                    /\ UNCHANGED <<mockTransactions, srvResp>>
               ELSE /\ mockTransactions' = Append(mockTransactions, transaction)
                    /\ srvResp' = SrvSubmitResponse(branch, transaction, "memory")
                    /\ UNCHANGED srv
    /\ UNCHANGED <<dbConnected, now, authVars, loginVars, chainVars, srvStatus,
                   contractAddress, financeTracker,
                   useBlockchain, srvTxs, srvList>>

\* await transaction.save() / dbTransaction.save() resolves, or rejects and
\* the catch block answers
SrvSubmitSave(s) ==
    /\ srv[s].pc = "save"
    /\ \/ /\ srvResp' = [NoSrvResp EXCEPT !.kind = "submit", !.status = 500,
                                          !.error = MsgStoreError,
                                          !.branch = srv[s].branch]
          /\ UNCHANGED srvTxs
       \/ /\ dbConnected
          /\ srvTxs' = Append(srvTxs, SrvDocument(srv[s].transaction))
          /\ srvResp' = SrvSubmitResponse(srv[s].branch, srv[s].transaction, "db")
    /\ srv' = [srv EXCEPT ![s] = SrvIdle]
    /\ UNCHANGED <<dbConnected, now, authVars, loginVars, chainVars, srvStatus,
                   contractAddress, financeTracker,
                   useBlockchain, mockTransactions, mockNextId, srvList>>

\* mockTransactions.sort((a, b) => new Date(b.timestamp) - new Date(a.timestamp)):
\* the array sorted by descending timestamp, elements with equal timestamps
\* in the order they had
SortedInPlace(array) ==
    IF Len(array) = 0 THEN <<>>
    ELSE LET p == CHOOSE q \in Permutations(Len(array)) :
                     \A i, j \in 1..Len(array) :
                        i < j =>
                          \/ array[q[i]].timestamp > array[q[j]].timestamp
                          \/ /\ array[q[i]].timestamp = array[q[j]].timestamp
                             /\ q[i] < q[j]
         IN  [i \in 1..Len(array) |-> array[p[i]]]

\* mutant: a listing returns both tiers
ListedTier_Both(connected, documents, array) == documents \o array

\* the tier a listing reads: the collection if the database is connected,
\* else the array
ListedTier(connected, documents, array) ==
    IF connected THEN documents ELSE array

\* GET /api/transactions: the sorted collection when the database is
\* connected, else mockTransactions, which sort() reorders in place
SrvListing ==
    /\ IF dbConnected
       THEN /\ \/ srvList' = [NoSrvList EXCEPT
                                !.status = 500, !.error = MsgStoreError,
                                !.source = "db",
                                !.writes = Len(srvTxs) + Len(mockTransactions)]
               \/ \E result \in SortByTimestampDesc(
                                  ListedTier(TRUE, srvTxs, mockTransactions)) :
                     srvList' = [NoSrvList EXCEPT
                                   !.status = 200, !.transactions = result,
                                   !.source = "db",
                                   !.writes = Len(srvTxs) + Len(mockTransactions)]
            /\ UNCHANGED mockTransactions
       ELSE /\ mockTransactions' = SortedInPlace(mockTransactions)
            /\ srvList' = [NoSrvList EXCEPT
                             !.status = 200,
                             !.transactions = SortedInPlace(
                                 ListedTier(FALSE, srvTxs, mockTransactions)),
                             !.source = "memory",
                             !.writes = Len(srvTxs) + Len(mockTransactions)]
    /\ UNCHANGED <<dbConnected, now, authVars, loginVars, chainVars, srvStatus,
                   contractAddress, financeTracker,
                   useBlockchain, mockNextId, srvTxs, srv, srvResp>>

\* mode: useBlockchain ? 'BLOCKCHAIN' : 'MOCK'
StatusMode(blockchain) == IF blockchain THEN "BLOCKCHAIN" ELSE "MOCK"

\* GET /api/status: the awaited queries of the node (and of the collection,
\* when the database is connected) resolve and the response is built, or one
\* of them rejects and the catch block answers
SrvStatus ==
    /\ \/ srvStatus' = [NoSrvStatus EXCEPT !.status = 500,
                                            !.error = MsgStoreError]
       \/ srvStatus' = [NoSrvStatus EXCEPT !.status = 200,
                                            !.mode = StatusMode(useBlockchain)]
    /\ UNCHANGED <<dbConnected, now, authVars, loginVars, chainVars,
                   contractAddress, financeTracker, useBlockchain,
                   mockTransactions, mockNextId, srvTxs, srv, srvResp, srvList>>

\* POST /api/mode
SrvSetMode ==
    /\ \E mode \in {"blockchain", "mock"} :
        IF mode = "blockchain" /\ contractAddress # ""
        THEN /\ useBlockchain' = TRUE
             /\ srvResp' = [NoSrvResp EXCEPT
                              !.kind = "mode", !.status = 200, !.success = TRUE,
                              !.mode = "blockchain",
                              !.message = "Switched to blockchain mode"]
        ELSE /\ useBlockchain' = FALSE
             /\ srvResp' = [NoSrvResp EXCEPT
                              !.kind = "mode", !.status = 200, !.success = TRUE,
                              !.mode = "mock",
                              !.message = "Switched to mock mode"]
    /\ UNCHANGED <<dbConnected, now, authVars, loginVars, chainVars, srvStatus,
                   contractAddress, financeTracker,
                   mockTransactions, mockNextId, srvTxs, srv, srvList>>

\* ------------------------------------------------- the FinanceTracker contract
\* src/contracts/FinanceTracker.sol.  A call is one transaction of the chain:
\* it runs alone and to its end (a call that reverts changes nothing).
\* block.timestamp is read from the clock.

\* msg.sender of a call
Senders == {"0xA11CE", "0xB0B"}

\* the arguments of addTransaction: _description, _amount, _transactionType
ChainBodies ==
    {[description |-> "Coffee", amount |-> 3, transactionType |-> "expense"],
     [description |-> "Paycheck", amount |-> 5, transactionType |-> "income"]}

\* mutant: the record is written before the counter is incremented
addTransactionWrite_BeforeIncrement(store, count, sender, timestamp, b) ==
    [count |-> count + 1,
     store |-> MappingWrite(store, count,
                   [id              |-> count,
                    description     |-> b.description,
                    amount          |-> b.amount,
                    transactionType |-> b.transactionType,
                    sender          |-> sender,
                    timestamp       |-> timestamp])]

\* transactionCount++;
\* transactions[transactionCount] = Transaction(transactionCount, ...);
addTransactionWrite(store, count, sender, timestamp, b) ==
    [count |-> count + 1,
     store |-> MappingWrite(store, count + 1,
                   [id              |-> count + 1,
                    description     |-> b.description,
                    amount          |-> b.amount,
                    transactionType |-> b.transactionType,
                    sender          |-> sender,
                    timestamp       |-> timestamp])]

\* function addTransaction(_description, _amount, _transactionType), called
\* by sender.  (The model stops at MaxCalls calls.)
addTransaction(sender, b) ==
    /\ transactionCount < MaxCalls
    /\ LET after == addTransactionWrite(chainTransactions, transactionCount,
                                        sender, now, b)
       IN  /\ transactionCount' = after.count
           /\ chainTransactions' = after.store
    /\ chainCalls' = Append(chainCalls,
                        [description     |-> b.description,
                         amount          |-> b.amount,
                         transactionType |-> b.transactionType,
                         sender          |-> sender,
                         timestamp       |-> now])
    /\ UNCHANGED <<dbConnected, now, authVars, loginVars, serverVars,
                   allTransactions>>

\* the loop of getAllTransactions:
\*   for (uint i = 0; i < transactionCount; i++)
\*       allTransactions[i] = transactions[i + 1];
RECURSIVE getAllTransactionsLoop(_, _, _, _)
getAllTransactionsLoop(store, count, i, array) ==
    IF i < count
    THEN getAllTransactionsLoop(store, count, i + 1,
                                Append(array, MappingRead(store, i + 1)))
    ELSE array

\* function getAllTransactions() public view
getAllTransactions ==
    /\ allTransactions' =
          [records |-> getAllTransactionsLoop(chainTransactions,
                                              transactionCount, 0, <<>>),
           count   |-> transactionCount]
    /\ UNCHANGED <<dbConnected, now, authVars, loginVars, serverVars,
                   chainTransactions, transactionCount, chainCalls>>

\* ------------------------------------------------------------ specification

Next ==
    \/ DbConnect
    \/ DbDisconnect
    \/ \E r \in RegSlots, b \in RegisterBodies : RegisterStart(r, b)
    \/ \E r \in RegSlots : RegisterFindOne(r)
    \/ \E r \in RegSlots : RegisterHash(r)
    \/ \E r \in RegSlots : RegisterSave(r)
    \/ \E s \in SubSlots, b \in SubmitBodies : SubmitStart(s, b)
    \/ \E s \in SubSlots : SubmitFindById(s)
    \/ \E s \in SubSlots : SubmitFindLast(s)
    \/ \E s \in SubSlots : SubmitSave(s)
    \/ Tick
    \/ \E u \in TokenUserIds : Listing(u)
    \/ \E u \in TokenUserIds : Summary(u)

Spec == Init /\ [][Next]_vars

\* registrations alone, from a fresh process
NextRegister ==
    \/ DbConnect
    \/ DbDisconnect
    \/ \E r \in RegSlots, b \in RegisterBodies : RegisterStart(r, b)
    \/ \E r \in RegSlots : RegisterFindOne(r)
    \/ \E r \in RegSlots : RegisterHash(r)
    \/ \E r \in RegSlots : RegisterSave(r)

SpecRegister == Init /\ [][NextRegister]_vars

\* registrations, in a process that is restarted
NextRestart ==
    \/ DbConnect
    \/ DbDisconnect
    \/ Restart
    \/ \E r \in RegSlots, b \in RegisterBodies : RegisterStart(r, b)
    \/ \E r \in RegSlots : RegisterFindOne(r)
    \/ \E r \in RegSlots : RegisterHash(r)
    \/ \E r \in RegSlots : RegisterSave(r)

SpecRestart == Init /\ [][NextRestart]_vars

\* the User collection after sequential registrations of principals 1 and 2,
\* each with its own email: the k-th holds the k-th pool address
Registered ==
    [k \in {1, 2} |-> [username |-> k, email |-> k,
                       password |-> bcryptHash("secret1"),
                       walletAddress |-> Pool[k]]]

\* submissions alone, by principals registered before
InitSubmit ==
    /\ dbConnected = TRUE
    /\ users = Registered
    /\ assignedWallets = {Pool[1], Pool[2]}
    /\ txs = <<>>
    /\ reg = [r \in RegSlots |-> RegIdle]
    /\ regResp = NoResp
    /\ sub = [s \in SubSlots |-> SubIdle]
    /\ subResp = NoResp
    /\ regFailed = FALSE
    /\ ReadsInit
    /\ ServerInit
    /\ LoginInit
    /\ ChainInit

NextSubmit ==
    \/ DbConnect
    \/ DbDisconnect
    \/ \E s \in SubSlots, b \in SubmitBodies : SubmitStart(s, b)
    \/ \E s \in SubSlots : SubmitFindById(s)
    \/ \E s \in SubSlots : SubmitFindLast(s)
    \/ \E s \in SubSlots : SubmitSave(s)

SpecSubmit == InitSubmit /\ [][NextSubmit]_vars

\* logins, while the principals registered before are stored
NextLogin ==
    \/ DbConnect
    \/ DbDisconnect
    \/ \E l \in LoginSlots, b \in LoginBodies : LoginStart(l, b)
    \/ \E l \in LoginSlots : LoginFindOne(l)
    \/ \E l \in LoginSlots : LoginCompare(l)

SpecLogin == InitSubmit /\ [][NextLogin]_vars

\* the handlers that read the ledger, over a ledger stored before.  An entry
\* is the <<type, category, amount>> of a stored transaction.
LedgerEntries ==
    {<<"income", "salary", 7>>, <<"expense", "rent", 2>>,
     <<"income", "rent", 2>>, <<"expense", "salary", 1>>,
     <<"income", "other", 1>>, <<"expense", "rent", 7>>}

\* who owns the i-th stored transaction: principal 1 owns all, or the two
\* principals take turns
OwnerPatterns == {"one", "turns"}
OwnerAt(pattern, i) == IF pattern = "turns" /\ i % 2 = 0 THEN 2 ELSE 1

\* when the i-th stored transaction was built: all at the same clock value,
\* or each one tick after the one before
StampPatterns == {"same", "later"}
StampAt(pattern, i) == IF pattern = "later" THEN i ELSE 1

\* the document that a submission of the entry by the owner, with no
\* counterparty address, leaves in the store
StoredTransaction(i, entry, owner, timestamp) ==
    [transactionId |-> i,
     description   |-> "Paycheck",
     amount        |-> parseFloat(entry[3]),
     type          |-> entry[1],
     category      |-> entry[2],
     sender        |-> Sender(entry[1], "", Registered[owner].walletAddress),
     receiver      |-> TransactionReceiver(entry[1], "",
                                           Registered[owner].walletAddress),
     timestamp     |-> timestamp,
     status        |-> "completed",
     createdBy     |-> owner]

\* the collections that up to MaxLedger sequential submissions leave
Ledgers ==
    {<<>>} \cup
    UNION {{[i \in 1..n |-> StoredTransaction(i, es[i], OwnerAt(o, i),
                                              StampAt(c, i))] :
                es \in [1..n -> LedgerEntries],
                o \in OwnerPatterns, c \in StampPatterns} :
           n \in 1..MaxLedger}

InitSummary ==
    /\ dbConnected = TRUE
    /\ users = Registered
    /\ assignedWallets = {Pool[1], Pool[2]}
    /\ txs \in Ledgers
    /\ reg = [r \in RegSlots |-> RegIdle]
    /\ regResp = NoResp
    /\ sub = [s \in SubSlots |-> SubIdle]
    /\ subResp = NoResp
    /\ regFailed = FALSE
    /\ ReadsInit
    /\ ServerInit
    /\ LoginInit
    /\ ChainInit

NextSummary ==
    \/ DbConnect
    \/ DbDisconnect
    \/ \E u \in TokenUserIds : Summary(u)
    \/ \E u \in TokenUserIds : SummaryMonthly(u)

SpecSummary == InitSummary /\ [][NextSummary]_vars

\* submissions one at a time, together with the handlers that read the
\* ledger.  (The clock stands still, as in SpecSubmit: every transaction gets
\* the same timestamp, which leaves the order of a listing to the store.)
LedgerSlots == {1}
\* the requests they send: an income, and one without a description
LedgerBodies ==
    {[description |-> "Paycheck", amount |-> 5, type |-> "income",
      category |-> "salary", receiver |-> ""],
     [description |-> "", amount |-> 5, type |-> "income",
      category |-> "", receiver |-> ""]}

NextLedger ==
    \/ DbConnect
    \/ DbDisconnect
    \/ \E s \in LedgerSlots, b \in LedgerBodies : SubmitStart(s, b)
    \/ \E s \in LedgerSlots : SubmitFindById(s)
    \/ \E s \in LedgerSlots : SubmitFindLast(s)
    \/ \E s \in LedgerSlots : SubmitSave(s)
    \/ \E u \in TokenUserIds : Listing(u)
    \/ \E u \in TokenUserIds : Summary(u)

SpecLedger == InitSubmit /\ [][NextLedger]_vars

\* every handler that checks the connection, one request of each kind at a
\* time, from a store that holds principal 1 and nothing else; every request
\* passes the field validation, and principal 1 reads
OutageSlots == {1}
\* the registration sent: a new principal
OutageBodies == {[username |-> 2, email |-> 2, password |-> "secret1"]}
\* the submission sent: an income
OutageSubmissions ==
    {[description |-> "Paycheck", amount |-> 5, type |-> "income",
      category |-> "salary", receiver |-> ""]}

InitOutage ==
    /\ dbConnected = FALSE
    /\ users = SubSeq(Registered, 1, 1)
    /\ assignedWallets = {Pool[1]}
    /\ txs = <<>>
    /\ reg = [r \in RegSlots |-> RegIdle]
    /\ regResp = NoResp
    /\ sub = [s \in SubSlots |-> SubIdle]
    /\ subResp = NoResp
    /\ regFailed = FALSE
    /\ ReadsInit
    /\ ServerInit
    /\ LoginInit
    /\ ChainInit

NextOutage ==
    \/ DbConnect
    \/ DbDisconnect
    \/ \E r \in OutageSlots, b \in OutageBodies : RegisterStart(r, b)
    \/ \E r \in OutageSlots : RegisterFindOne(r)
    \/ \E r \in OutageSlots : RegisterHash(r)
    \/ \E r \in OutageSlots : RegisterSave(r)
    \/ \E s \in OutageSlots, b \in OutageSubmissions : SubmitStart(s, b)
    \/ \E s \in OutageSlots : SubmitFindById(s)
    \/ \E s \in OutageSlots : SubmitFindLast(s)
    \/ \E s \in OutageSlots : SubmitSave(s)
    \/ Listing(1)
    \/ Summary(1)

SpecOutage == InitOutage /\ [][NextOutage]_vars

\* submissions one at a time that differ in their amount only: a negative
\* amount, zero, a positive amount
AmountBodies ==
    {[description |-> "Refund", amount |-> a, type |-> "expense",
      category |-> "other", receiver |-> ""] : a \in {0 - 5, 0, 5}}

NextAmounts ==
    \/ DbConnect
    \/ DbDisconnect
    \/ \E s \in LedgerSlots, b \in AmountBodies : SubmitStart(s, b)
    \/ \E s \in LedgerSlots : SubmitFindById(s)
    \/ \E s \in LedgerSlots : SubmitFindLast(s)
    \/ \E s \in LedgerSlots : SubmitSave(s)

SpecAmounts == InitSubmit /\ [][NextAmounts]_vars

\* the contract from its deployment
NextContract ==
    \/ Tick
    \/ \E sender \in Senders, b \in ChainBodies : addTransaction(sender, b)
    \/ getAllTransactions

SpecContract == Init /\ [][NextContract]_vars

\* server.js from its start: the connection to the database is still being
\* made, and the contract is loaded as deployment.json allows
InitServer ==
    /\ dbConnected = FALSE
    /\ users = <<>>
    /\ txs = <<>>
    /\ assignedWallets = {}
    /\ reg = [r \in RegSlots |-> RegIdle]
    /\ regResp = NoResp
    /\ sub = [s \in SubSlots |-> SubIdle]
    /\ subResp = NoResp
    /\ regFailed = FALSE
    /\ ReadsInit
    /\ \E d \in Deployments :
          /\ contractAddress = (IF d = "none" THEN "" ELSE "0xC0DE")
          /\ financeTracker = (d = "full")
          /\ useBlockchain = (d = "full")
    /\ mockTransactions = <<>>
    /\ mockNextId = 1
    /\ srvTxs = <<>>
    /\ srv = [s \in SrvSlots |-> SrvIdle]
    /\ srvResp = NoSrvResp
    /\ srvList = NoSrvList
    /\ srvStatus = NoSrvStatus
    /\ LoginInit
    /\ ChainInit

NextServer ==
    \/ DbConnect
    \/ DbDisconnect
    \/ Tick
    \/ \E s \in SrvSlots : SrvSubmitStart(s)
    \/ \E s \in SrvSlots : SrvSubmitSave(s)
    \/ SrvListing
    \/ SrvSetMode

SpecServer == InitServer /\ [][NextServer]_vars

\* server.js: the mode it reports and the mode it processes submissions in
NextMode ==
    \/ DbConnect
    \/ DbDisconnect
    \/ \E s \in SrvSlots : SrvSubmitStart(s)
    \/ \E s \in SrvSlots : SrvSubmitSave(s)
    \/ SrvStatus
    \/ SrvSetMode

SpecMode == InitServer /\ [][NextMode]_vars


\* ------------------------------------------------------------------ claims

\* the submission slot s answers in this step (its handler ends)
SubAnswers(s) == sub[s].pc # "idle" /\ sub'[s].pc = "idle"

\* the registration slot r answers in this step
RegAnswers(r) == reg[r].pc # "idle" /\ reg'[r].pc = "idle"

StoredIds(stored) == {stored[i].transactionId : i \in 1..Len(stored)}

\* C1: under every interleaving of concurrent submissions no two committed
\* transactions share a transactionId; a submission whose computed id is
\* already stored when its insert runs writes no record and ends with an
\* error response.
C1_UniqueTransactionIds ==
    [][ /\ \A i, j \in 1..Len(txs') :
              i # j => txs'[i].transactionId # txs'[j].transactionId
        /\ \A s \in SubSlots :
              (/\ SubAnswers(s)
               /\ sub[s].pc = "save"
               /\ sub[s].transactionId \in StoredIds(txs))
              => (txs' = txs /\ subResp'.status >= 400) ]_vars

\* C1 witness: two submissions read the same maximum; one committed id 1 and
\* the other was rejected by the unique index
C1_Witness ==
    /\ Len(txs) = 1
    /\ txs[1].transactionId = 1
    /\ subResp.cause = "duplicateId"

\* C2: from an empty store, the committed transactionIds are exactly 1..n
\* for n committed transactions, in every reachable state.
C2_GapFreeIds == StoredIds(txs) = 1..Len(txs)

\* C2 witness: two transactions are committed after a submission has failed
C2_Witness ==
    /\ Len(txs) = 2
    /\ txs[2].transactionId = 2
    /\ subResp.status = 400

\* C3: the response of a submission that lost the id race differs from the
\* response of every other exit of the handler.
C3_DuplicateIdDistinct ==
    subResp.cause # "duplicateId"
        => Visible(subResp) # Visible(CatchResponse(MsgDupKey, "duplicateId"))

\* C3 witness: a submission lost the id race and was answered
C3_Witness ==
    /\ subResp.cause = "duplicateId"
    /\ Visible(subResp) = Visible(CatchResponse(MsgDupKey, "duplicateId"))
    /\ Len(txs) >= 1


\* the registration slot r gets a wallet from getAvailableWallet in this step
RegDraws(r) == reg[r].pc = "findOne" /\ reg'[r].pc = "hash"

\* the registration slot r persists its principal in this step
RegPersists(r) ==
    reg[r].pc = "save" /\ RegAnswers(r) /\ Len(users') = Len(users) + 1

\* the addresses held by a stored principal or by a registration that has
\* drawn one and not yet answered
HeldWallets ==
    {users[i].walletAddress : i \in 1..Len(users)}
        \cup {reg[r].wallet : r \in {q \in RegSlots : reg[q].pc \in {"hash", "save"}}}

\* C4: within one server process, under every interleaving of registrations,
\* no two distinct stored principals hold the same wallet address.
C4_WalletExclusive ==
    \A i, j \in 1..Len(users) :
        i # j => users[i].walletAddress # users[j].walletAddress

\* C4 witness: two registrations overlapped (the one that drew second was
\* stored first) and their principals hold different addresses
C4_Witness ==
    /\ Len(users) = 2
    /\ users[1].walletAddress = Pool[2]
    /\ users[2].walletAddress = Pool[1]

\* C5: a registration that fails leaves the assigned set as it was: no
\* address is marked assigned unless a principal holding it is persisted (or
\* the registration that drew it is still running).
C5_NoWalletLeak == assignedWallets \subseteq HeldWallets

\* C6: once PoolSize principals are registered every pool address is assigned
\* and a further registration is answered with the pool-exhausted error (unless
\* the lookup itself fails or finds the principal), creating no principal and
\* leaving the assigned set unchanged; getAvailableWallet throws only when
\* every pool address is in the assigned set.
C6_PoolExhausted ==
    [][ /\ Len(users) = PoolSize => assignedWallets = PoolSet
        /\ \A r \in RegSlots :
            /\ (RegAnswers(r) /\ regResp'.cause = "noWallets")
                => /\ assignedWallets = PoolSet
                   /\ assignedWallets' = assignedWallets
                   /\ users' = users
                   /\ regResp'.status = 500
                   /\ regResp'.error = MsgNoWallets
            /\ (Len(users) = PoolSize /\ reg[r].pc = "findOne" /\ reg'[r] # reg[r])
                => /\ RegAnswers(r)
                   /\ users' = users
                   /\ assignedWallets' = assignedWallets
                   /\ regResp'.cause \in {"noWallets", "userExists", "storeError"}
                   /\ regResp'.cause = "userExists"
                        => ExistingUser(reg[r].username, reg[r].email) ]_vars

\* C6 witness: PoolSize principals are stored and the registration answered
\* last got the pool-exhausted error
C6_Witness ==
    /\ Len(users) = PoolSize
    /\ regResp.cause = "noWallets"
    /\ regResp.error = MsgNoWallets
    /\ assignedWallets = PoolSet

\* a draw returns the first address, in pool order, outside the assigned set
\* and adds exactly that address; nothing else changes the assigned set
DrawsFirstFree ==
    /\ \A r \in RegSlots :
          RegDraws(r) =>
              /\ reg'[r].wallet \in PoolSet \ assignedWallets
              /\ assignedWallets' = assignedWallets \cup {reg'[r].wallet}
              /\ \A i, j \in 1..Len(Pool) :
                    (Pool[j] = reg'[r].wallet /\ i < j) => Pool[i] \in assignedWallets
    /\ assignedWallets' # assignedWallets => \E r \in RegSlots : RegDraws(r)

\* C7 as stated: getAvailableWallet returns the first unassigned address in
\* pool order and adds exactly it; with a fresh pool and no failed
\* registration, once two principals are registered the first registered
\* (stored) principal holds Pool[1] and the second Pool[2].
C7_FirstRegisteredHoldsFirst ==
    [][ /\ DrawsFirstFree
        /\ (~regFailed' /\ Len(users') >= 2) =>
              /\ users'[1].walletAddress = Pool[1]
              /\ users'[2].walletAddress = Pool[2] ]_vars

\* C7 amended: getAvailableWallet returns the first unassigned address in pool
\* order and adds exactly it; with a fresh pool and no failed registration the
\* k-th registration to reach the wallet assignment gets Pool[k], and is
\* stored with the address it drew (registrations in flight together may be
\* stored in another order than they drew).
C7_DrawOrderIsPoolOrder ==
    [][ /\ DrawsFirstFree
        /\ \A r \in RegSlots :
            /\ (RegDraws(r) /\ ~regFailed)
                  => reg'[r].wallet = Pool[Cardinality(assignedWallets) + 1]
            /\ RegPersists(r)
                  => users'[Len(users')].walletAddress = reg[r].wallet ]_vars

\* C7 witness: no registration failed, two principals registered one after
\* the other and hold Pool[1] and Pool[2]
C7_Witness ==
    /\ ~regFailed
    /\ Len(users) = 2
    /\ users[1].walletAddress = Pool[1]
    /\ users[2].walletAddress = Pool[2]
    /\ assignedWallets = {Pool[1], Pool[2]}


\* the submission slot s commits its transaction in this step
SubCommits(s) ==
    sub[s].pc = "save" /\ SubAnswers(s) /\ Len(txs') = Len(txs) + 1

\* the wallet address of the principal that owns a committed transaction
OwnerWallet(t) == users[t.createdBy].walletAddress

\* C8: a committed income transaction of a principal with wallet W has
\* receiver = W and sender = the supplied counterparty address, or
\* "external_sender" when none is supplied; a committed expense transaction
\* has sender = W and receiver = the supplied counterparty address, or
\* "external_receiver" when none is supplied.
C8_Attribution ==
    [][ /\ \A s \in SubSlots :
              SubCommits(s) =>
                  LET t  == txs'[Len(txs')]
                      W  == users[sub[s].userId].walletAddress
                      cp == sub[s].receiver
                  IN  /\ t.createdBy = sub[s].userId
                      /\ t.type = sub[s].type
                      /\ t.type = "income" =>
                            /\ t.receiver = W
                            /\ t.sender = IF cp = "" THEN "external_sender" ELSE cp
                      /\ t.type = "expense" =>
                            /\ t.sender = W
                            /\ t.receiver = IF cp = "" THEN "external_receiver" ELSE cp
        /\ \A i \in 1..Len(txs') :
              /\ txs'[i].type = "income" => txs'[i].receiver = OwnerWallet(txs'[i])
              /\ txs'[i].type = "expense" => txs'[i].sender = OwnerWallet(txs'[i]) ]_vars

\* C8 witness: the principal holding Pool[1] has committed an income without
\* a counterparty, the principal holding Pool[2] an expense with one
C8_Witness ==
    /\ Len(txs) = 2
    /\ txs[1].type = "income" /\ txs[1].createdBy = 1
    /\ txs[1].sender = "external_sender" /\ txs[1].receiver = Pool[1]
    /\ txs[2].type = "expense" /\ txs[2].createdBy = 2
    /\ txs[2].sender = Pool[2] /\ txs[2].receiver = "0xC0FFEE"

\* C9: every committed transaction has exactly one of its sender and receiver
\* equal to the owning principal's wallet address, whatever counterparty
\* address the request supplied.
C9_ExactlyOneOwnWallet ==
    \A i \in 1..Len(txs) :
        (txs[i].sender = OwnerWallet(txs[i])) # (txs[i].receiver = OwnerWallet(txs[i]))

\* C10: a submission whose direction is neither income nor expense ends with
\* an error response and commits nothing, and no committed transaction has a
\* direction outside {income, expense}.
C10_InvalidDirectionRejected ==
    [][ /\ \A i \in 1..Len(txs') : txs'[i].type \in {"income", "expense"}
        /\ \A s \in SubSlots :
              (SubAnswers(s) /\ sub[s].type \notin {"income", "expense"})
                  => (txs' = txs /\ subResp'.status >= 400)
        /\ txs' # txs =>
              \E s \in SubSlots :
                  SubCommits(s) /\ sub[s].type \in {"income", "expense"} ]_vars

\* C10 witness: a submission with direction "transfer" reached the insert and
\* was rejected by the schema's validation of type
C10_Witness ==
    /\ subResp.cause = "validation"
    /\ subResp.status = 500
    /\ subResp.error = MsgValidationType


\* the map byCategory of a summary response
ByCategory(resp) ==
    resp.analytics[CHOOSE i \in 1..Len(resp.analytics) :
                      resp.analytics[i].name = "byCategory"].map

\* the sum, in Number arithmetic and in sequence order, of the amounts of a
\* sequence of transactions
RECURSIVE SumAmounts(_)
SumAmounts(transactions) ==
    IF Len(transactions) = 0 THEN 0
    ELSE NumberAdd(SumAmounts(SubSeq(transactions, 1, Len(transactions) - 1)),
                   transactions[Len(transactions)].amount)

\* the sum, in Number arithmetic, of total over the buckets of a map, in the
\* order of its keys
RECURSIVE SumOfTotals(_)
SumOfTotals(map) ==
    IF Len(map) = 0 THEN 0
    ELSE NumberAdd(SumOfTotals(SubSeq(map, 1, Len(map) - 1)), map[Len(map)].total)

\* C11: for every set T of a principal's transactions the summary satisfies
\* balance = totalIncome - totalExpenses, and the sum of byCategory[c].total
\* over all categories c equals totalIncome + totalExpenses (the sums and the
\* difference taken in the arithmetic of the program's Numbers).
C11_SummaryIdentities ==
    sumResp.cause = "computed" =>
        /\ sumResp.summary.balance =
              NumberSub(sumResp.summary.totalIncome, sumResp.summary.totalExpenses)
        /\ SumOfTotals(ByCategory(sumResp)) =
              NumberAdd(sumResp.summary.totalIncome, sumResp.summary.totalExpenses)

C13_EmptySummary ==
    (sumResp.cause = "computed" /\ FindByCreator(txs, sumResp.userId) = <<>>) =>
        /\ sumResp.status = 200
        /\ sumResp.error = ""
        /\ sumResp.summary.totalIncome = 0
        /\ sumResp.summary.totalExpenses = 0
        /\ sumResp.summary.balance = 0
        /\ sumResp.summary.transactionCount = 0
        /\ \A i \in 1..Len(sumResp.analytics) :
              sumResp.analytics[i].map = EmptyMap

\* C13 witness: the store holds transactions of principal 1 only, and
\* principal 2 got a summary with both maps
C13_Witness ==
    /\ Len(txs) >= 1
    /\ sumResp.cause = "computed"
    /\ sumResp.userId = 2
    /\ sumResp.status = 200
    /\ sumResp.summary.transactionCount = 0
    /\ Len(sumResp.analytics) = 2
    /\ FindByCreator(txs, 2) = <<>>


\* C14: a committed transaction stays in the store with every field
\* unchanged: no step of a submission, a listing or a summary (nor of the
\* connection) removes or rewrites a stored transaction; the store only grows
\* at its end.
C14_CommittedImmutable ==
    [][ /\ Len(txs') >= Len(txs)
        /\ \A i \in 1..Len(txs) : txs'[i] = txs[i] ]_vars

\* C14 witness: after a first transaction was committed it was listed, a
\* second one was committed and rejected submissions, a listing and a summary
\* followed; the first is still what the listing returned
C14_Witness ==
    /\ Len(txs) = 2
    /\ listResp.status = 200
    /\ listResp.writes = 1
    /\ listResp.transactions = <<txs[1]>>
    /\ sumResp.cause = "computed"
    /\ sumResp.summary.transactionCount = 2
    /\ subResp.cause = "missingField"


\* C15: two transaction listings with no committed write between them return
\* the same sequence, equal in order and in content.  (In server.js every
\* caller is the same principal; a write is committed when a transaction
\* enters the collection or mockTransactions, so two listings have no write
\* between them when they saw the same number of stored transactions.)
C15_IdempotentListing ==
    [][ (/\ srvList.status = 200
         /\ srvList'.status = 200
         /\ srvList'.writes = srvList.writes)
        => srvList'.transactions = srvList.transactions ]_vars


\* C16: in every reachable state, under every interleaving of concurrent
\* registrations, no two stored principals share a username and no two share
\* an email; a registration whose username or email is held by a stored
\* principal when it is looked up or inserted stores no principal and ends
\* with an error.
C16_UniquePrincipals ==
    [][ /\ \A i, j \in 1..Len(users') :
              i # j => /\ users'[i].username # users'[j].username
                       /\ users'[i].email # users'[j].email
        /\ \A r \in RegSlots :
              (/\ reg[r].pc \in {"findOne", "save"}
               /\ reg'[r] # reg[r]
               /\ ExistingUser(reg[r].username, reg[r].email))
              => /\ users' = users
                 /\ RegAnswers(r)
                 /\ regResp'.status >= 400 ]_vars

\* C16 witness: two registrations of one email passed the lookup together;
\* one is stored and the other was rejected by the unique index
C16_Witness ==
    /\ Len(users) = 1
    /\ regResp.cause = "duplicateKey"
    /\ \A r \in RegSlots : reg[r].pc = "idle"

SrvFlags(resp) ==
    <<resp.status, resp.success, resp.mode, resp.transaction.status>>

\* the submission a response answers: the fields of the request as the
\* transaction carries them
SrvSubmission(resp) ==
    <<resp.transaction.description, resp.transaction.amount,
      resp.transaction.type, resp.transaction.sender>>

\* C18: in server.js the response to a submission that was stored only in
\* mockTransactions, the database not being connected, carries a flag (status
\* or mode) whose value differs from that of the response to the same
\* submission, handled by the same branch, stored in the database.
C18_DegradedFlagged ==
    [][ (/\ srvResp.kind = "submit" /\ srvResp'.kind = "submit"
         /\ {srvResp.stored, srvResp'.stored} = {"db", "memory"}
         /\ srvResp.branch = srvResp'.branch
         /\ SrvSubmission(srvResp) = SrvSubmission(srvResp'))
        => SrvFlags(srvResp') # SrvFlags(srvResp) ]_vars

\* the hashes (one per request) of the transactions in a sequence
HashesOf(transactions) ==
    {transactions[i].blockchainHash : i \in 1..Len(transactions)}

\* C19: in server.js the two tiers are never synchronised: no transaction is
\* in both; a listing made while the database is connected returns documents
\* of the collection only, none of the transactions written to
\* mockTransactions; a listing made while it is disconnected returns elements
\* of mockTransactions only, none of the transactions written to the database.
C19_TiersApart ==
    /\ HashesOf(mockTransactions) \cap HashesOf(srvTxs) = {}
    /\ srvList.source = "db" =>
          /\ HashesOf(srvList.transactions) \subseteq HashesOf(srvTxs)
          /\ HashesOf(srvList.transactions) \cap HashesOf(mockTransactions) = {}
    /\ srvList.source = "memory" =>
          /\ HashesOf(srvList.transactions) \subseteq HashesOf(mockTransactions)
          /\ HashesOf(srvList.transactions) \cap HashesOf(srvTxs) = {}

\* C19 witness: with one transaction in each tier, a listing made while the
\* database was connected returned the one of the collection only
C19_Witness ==
    /\ Len(mockTransactions) = 1
    /\ Len(srvTxs) = 1
    /\ srvList.source = "db"
    /\ srvList.status = 200
    /\ srvList.writes = 2
    /\ srvList.transactions = srvTxs


\* C20: a submission that lacks description, amount or direction is answered
\* with the validation error (400) in the first step of its handler, before
\* any store access: that step commits nothing, takes no id (no handler
\* advances) and leaves the principals and the wallet pool as they were; no
\* such submission gets past that step, so none is ever committed.
C20_MissingFieldRejected ==
    [][ /\ (subResp' # subResp /\ subResp'.cause = "missingField")
              => /\ subResp'.status = 400
                 /\ subResp'.error = MsgTxRequired
                 /\ subResp'.transactionId = 0
                 /\ txs' = txs
                 /\ sub' = sub
                 /\ users' = users
                 /\ assignedWallets' = assignedWallets
        /\ \A s \in SubSlots :
              sub'[s].pc # "idle"
                  => /\ sub'[s].description # ""
                     /\ sub'[s].amount # 0
                     /\ sub'[s].type # ""
        /\ \A i \in 1..Len(txs') :
              /\ txs'[i].description # ""
              /\ txs'[i].amount # 0
              /\ txs'[i].type # "" ]_vars

\* C20 witness: with one transaction committed and another submission waiting
\* for its insert, a submission lacking a field was rejected
C20_Witness ==
    /\ subResp.cause = "missingField"
    /\ subResp.status = 400
    /\ Len(txs) = 1
    /\ \E s \in SubSlots : sub[s].pc = "save"


\* C21: in every reachable state every committed transaction has a
\* non-negative amount (a submission with a negative amount is never
\* committed).
C21_NonNegativeAmounts ==
    \A i \in 1..Len(txs) : txs[i].amount >= 0


\* what the client sees of a login response
LoginVisible(resp) ==
    [status |-> resp.status, error |-> resp.error, userId |-> resp.userId]

\* C22: the response to a login attempt with a known email and a wrong
\* password is the response to a login attempt with an unknown email: status
\* 400 and the invalid-credentials message, for both.
C22_LoginIndistinguishable ==
    loginResp.attempt \in {"unknownEmail", "wrongPassword"} =>
        LoginVisible(loginResp) =
            LoginVisible(LoginResponse(400, MsgInvalidCredentials,
                                       "noUser", "unknownEmail"))


\* the positions in the store of the transactions that principal p created
OwnedBy(p) == {k \in 1..Len(txs) : txs[k].createdBy = p}

\* the stored transactions of principal p with the given direction, in the
\* order of the store
OwnedOfType(p, type) ==
    SelectSeq(txs, LAMBDA t : t.createdBy = p /\ t.type = type)

\* C23: a listing answered to principal p returns transactions created by p
\* only, and each stored transaction of p exactly once; a summary answered to
\* p counts exactly the stored transactions of p, and its totals are the sums
\* over the income and over the expense transactions of p.
C23_OwnerIsolation ==
    [][ /\ (listResp' # listResp /\ listResp'.status = 200) =>
              LET q == listResp'.userId
                  L == listResp'.transactions
              IN  /\ \A i \in 1..Len(L) : L[i].createdBy = q
                  /\ Len(L) = Cardinality(OwnedBy(q))
                  /\ \A k \in OwnedBy(q) : \E i \in 1..Len(L) : L[i] = txs[k]
        /\ (sumResp' # sumResp /\ sumResp'.cause = "computed") =>
              LET q == sumResp'.userId
              IN  /\ sumResp'.summary.transactionCount = Cardinality(OwnedBy(q))
                  /\ sumResp'.summary.totalIncome =
                        SumAmounts(OwnedOfType(q, "income"))
                  /\ sumResp'.summary.totalExpenses =
                        SumAmounts(OwnedOfType(q, "expense"))
                  /\ Len(sumResp'.recentTransactions) = Cardinality(OwnedBy(q)) ]_vars

\* C23 witness: the two principals have committed one transaction each;
\* principal 1 was listed its own only and principal 2 got a summary of its
\* own only
C23_Witness ==
    /\ Len(txs) = 2
    /\ txs[1].createdBy = 1
    /\ txs[2].createdBy = 2
    /\ listResp.status = 200 /\ listResp.userId = 1 /\ listResp.writes = 2
    /\ listResp.transactions = <<txs[1]>>
    /\ sumResp.cause = "computed" /\ sumResp.userId = 2
    /\ sumResp.summary.transactionCount = 1
    /\ sumResp.summary.totalIncome = 5


\* C24: after n addTransaction calls transactionCount = n; the record under
\* each key i in 1..n has id i and holds what the i-th call passed, and no
\* later call overwrites it; getAllTransactions returns exactly the records
\* under the keys 1..n, in increasing id order.
C24_AppendOnlyLedger ==
    [][ /\ transactionCount' = Len(chainCalls')
        /\ \A i \in 1..transactionCount' :
              /\ MappingRead(chainTransactions', i).id = i
              /\ MappingRead(chainTransactions', i) =
                    [id              |-> i,
                     description     |-> chainCalls'[i].description,
                     amount          |-> chainCalls'[i].amount,
                     transactionType |-> chainCalls'[i].transactionType,
                     sender          |-> chainCalls'[i].sender,
                     timestamp       |-> chainCalls'[i].timestamp]
        /\ \A i \in 1..transactionCount :
              MappingRead(chainTransactions', i) = MappingRead(chainTransactions, i)
        /\ Len(allTransactions'.records) = allTransactions'.count
        /\ \A i \in 1..allTransactions'.count :
              /\ allTransactions'.records[i] = MappingRead(chainTransactions', i)
              /\ allTransactions'.records[i].id = i ]_vars

\* C24 witness: three calls by two senders were executed, getAllTransactions
\* was called after the second and returned the two records then stored
C24_Witness ==
    /\ transactionCount = 3
    /\ MappingRead(chainTransactions, 1).sender
          # MappingRead(chainTransactions, 2).sender
    /\ MappingRead(chainTransactions, 3).id = 3
    /\ allTransactions.count = 2
    /\ allTransactions.records =
          <<MappingRead(chainTransactions, 1), MappingRead(chainTransactions, 2)>>


\* the registrations that have read the pool (drawn an address) and whose
\* principal is not stored yet
Drawn == {r \in RegSlots : reg[r].pc \in {"hash", "save"}}

\* C25 as stated: when two simultaneous registrations have both read the
\* wallet pool before either principal is stored, both hold the same wallet
\* address.
C25_RaceDuplicates ==
    \A r, q \in Drawn : reg[r].wallet = reg[q].wallet

\* C25 amended: two simultaneous registrations never hold the same wallet
\* address: the step in which a registration reads the pool also records the
\* address in the assigned set, so the address it gets is one that was not
\* assigned, that no other registration in flight holds and that no stored
\* principal holds, and registrations in flight together hold different
\* addresses.
C25_NoWalletRace ==
    [][ /\ \A r \in RegSlots :
              RegDraws(r) =>
                  /\ reg'[r].wallet \notin assignedWallets
                  /\ reg'[r].wallet \in assignedWallets'
                  /\ \A q \in Drawn : reg[q].wallet # reg'[r].wallet
                  /\ \A i \in 1..Len(users) :
                        users[i].walletAddress # reg'[r].wallet
        /\ \A r, q \in RegSlots :
              (/\ r # q
               /\ reg'[r].pc \in {"hash", "save"}
               /\ reg'[q].pc \in {"hash", "save"})
              => reg'[r].wallet # reg'[q].wallet ]_vars

\* C25 witness: both registrations have read the pool and neither principal
\* is stored; they hold the first and the second address
C25_Witness ==
    /\ Drawn = RegSlots
    /\ users = <<>>
    /\ {reg[r].wallet : r \in RegSlots} = {Pool[1], Pool[2]}
    /\ assignedWallets = {Pool[1], Pool[2]}


\* C26: in every reachable state, restarts of the server process included,
\* the assigned set contains the wallet address of every stored principal,
\* and a registration never draws an address that a stored principal holds.
C26_AssignedCoversPersisted ==
    [][ /\ \A i \in 1..Len(users') :
              users'[i].walletAddress \in assignedWallets'
        /\ \A r \in RegSlots :
              RegDraws(r) =>
                  \A i \in 1..Len(users) :
                      users[i].walletAddress # reg'[r].wallet ]_vars


\* C27: while the database is not connected, a registration, a submission, a
\* listing or a summary request that passes the field validation is answered
\* with the service-unavailable error (503) and goes no further: no handler
\* gets past its first step, no wallet is drawn, no principal and no
\* transaction is written, and the listing and the summary carry no data.
C27_UnavailableChangesNothing ==
    [][ ~dbConnected =>
          /\ users' = users
          /\ txs' = txs
          /\ assignedWallets' = assignedWallets
          /\ \A r \in RegSlots : reg[r].pc = "idle" => reg'[r].pc = "idle"
          /\ \A s \in SubSlots : sub[s].pc = "idle" => sub'[s].pc = "idle"
          /\ (regResp' # regResp /\ reg' = reg) =>
                /\ regResp'.status = 503
                /\ regResp'.error = MsgDbUnavailable
                /\ regResp'.wallet = ""
          /\ (subResp' # subResp /\ sub' = sub) =>
                /\ subResp'.status = 503
                /\ subResp'.error = MsgTxDbUnavailable
                /\ subResp'.transactionId = 0
          /\ listResp' # listResp =>
                /\ listResp'.status = 503
                /\ listResp'.error = MsgTxDbUnavailable
                /\ listResp'.transactions = <<>>
          /\ sumResp' # sumResp =>
                /\ sumResp'.status = 503
                /\ sumResp'.error = MsgTxDbUnavailable
                /\ sumResp'.summary = NoSummary.summary
                /\ sumResp'.analytics = <<>> ]_vars

\* C27 witness: with a second principal and a transaction stored, the
\* connection is lost and each of the four requests was answered 503
C27_Witness ==
    /\ ~dbConnected
    /\ Len(users) = 2
    /\ Len(txs) = 1
    /\ assignedWallets = {Pool[1], Pool[2]}
    /\ regResp.cause = "dbUnavailable" /\ regResp.status = 503
    /\ subResp.cause = "dbUnavailable" /\ subResp.status = 503
    /\ listResp.status = 503 /\ listResp.writes = 1
    /\ sumResp.cause = "dbUnavailable" /\ sumResp.status = 503


\* server.js: the id a transaction was created with (transactionId in the
\* blockchain branch, id in the mock branch); 0 for a document of the
\* collection built from a mock-branch object, which keeps no id
CreatedId(t) == IF t.transactionId # 0 THEN t.transactionId ELSE t.id

\* server.js: the ids of the transactions a sequence holds
CreatedIds(transactions) ==
    {CreatedId(transactions[i]) : i \in 1..Len(transactions)} \ {0}

\* server.js: the submissions waiting for their save
SrvInFlight == {s \in SrvSlots : srv[s].pc = "save"}

\* C28: in server.js every transaction is created with the value of
\* mockNextId, which then grows by one: the id is larger than the id of every
\* transaction created before, whichever branch and tier it and they took,
\* and no two transactions (in mockTransactions, in the collection, waiting
\* for their save) carry the same id: there are as many ids as transactions
\* that carry one, all below the counter.
C28_IdsFromOneCounter ==
    /\ [](LET held == CreatedIds(mockTransactions) \cup CreatedIds(srvTxs)
                         \cup {CreatedId(srv[s].transaction) : s \in SrvInFlight}
          IN  /\ \A i \in held : i < mockNextId
              /\ Cardinality(held) =
                    Len(mockTransactions) + Cardinality(SrvInFlight)
                      + Cardinality({i \in 1..Len(srvTxs) :
                                        CreatedId(srvTxs[i]) # 0}))
    /\ [][ mockNextId' # mockNextId =>
              LET t == IF srv' # srv
                       THEN srv'[CHOOSE s \in SrvSlots : srv'[s] # srv[s]].transaction
                       ELSE mockTransactions'[Len(mockTransactions')]
              IN  /\ CreatedId(t) = mockNextId
                  /\ mockNextId' = mockNextId + 1 ]_vars

\* C28 witness: a blockchain-branch transaction with id 1 is in the
\* collection and, after a mode switch and the loss of the connection, a
\* mock-branch transaction with id 2 is in mockTransactions
C28_Witness ==
    /\ Len(srvTxs) = 1
    /\ srvTxs[1].transactionId = 1
    /\ srvTxs[1].status = "blockchain_pending"
    /\ Len(mockTransactions) = 1
    /\ mockTransactions[1].id = 2
    /\ mockTransactions[1].status = "completed"
    /\ mockNextId = 3


\* the mode of the status endpoint that stands for a branch of the
\* submission handler
ReportedAs(branch) == IF branch = "blockchain" THEN "BLOCKCHAIN" ELSE "MOCK"

\* C29: in server.js the mode the status endpoint reports in a state is the
\* mode in which a submission made in that state is processed and which its
\* response reports: a submission that follows a status response, with
\* nothing between them, is handled by the branch that the status named.
C29_StatusModeIsProcessingMode ==
    [][ (/\ srvStatus.status = 200
         /\ srvStatus.mode = StatusMode(useBlockchain)
         /\ mockNextId' # mockNextId)
        => LET branch == IF \E s \in SrvSlots : srv'[s] # srv[s]
                         THEN srv'[CHOOSE s \in SrvSlots : srv'[s] # srv[s]].branch
                         ELSE srvResp'.branch
           IN  ReportedAs(branch) = srvStatus.mode ]_vars


\* C30: a transaction listing is a pure read: the step in which a listing is
\* answered leaves the store as it was, in server.js the collection and the
\* array mockTransactions, the order of its elements included.
C30_ListingIsPureRead ==
    [][ srvList' # srvList =>
          /\ srvTxs' = srvTxs
          /\ mockTransactions' = mockTransactions ]_vars

=============================================================================
